---- MODULE Spec2Model ----
(***************************************************************************)
(* Model of src/monit.py: the Sense HAT uptime monitor.                    *)
(*                                                                         *)
(* main() reads hosts.csv row by row and creates one asyncio task per      *)
(* report / ping / curl / blinking-colour row; the tasks share the         *)
(* dictionary status_dict and the Sense HAT display.  All tasks run on one *)
(* event-loop thread: a task gives up the thread only at an await, so each *)
(* action below is the code between two awaits.  Time is discrete: Tick    *)
(* advances every pending asyncio.sleep by one tick and is taken only when *)
(* no task is ready to run.  sense.show_message is a synchronous call: it  *)
(* holds the event-loop thread for the whole scroll.                       *)
(***************************************************************************)
EXTENDS Integers, Sequences, FiniteSets, TLC

VARIABLES
    rows,         \* the rows of hosts.csv the csv reader has not yet yielded
    mainPc,       \* main(): "parse", "waiting" (in gather), "done", "aborted"
    mainErr,      \* the exception that ended main(), or "none"
    report_task,  \* index in loops of the task bound to report_task, 0 = unbound
    tasks,        \* the list tasks: indices in loops of the check_host tasks
    loops,        \* every task created with asyncio.create_task, in creation order
    status_dict,  \* the shared dictionary (x, y) -> latest result
    display,      \* the LED matrix: the pixels written so far, pixel -> colour
    shown         \* the message sense.show_message is scrolling, NoMessage = none

vars == <<rows, mainPc, mainErr, report_task, tasks, loops, status_dict, display, shown>>

(***************************************************************************)
(* Bounds of the model.                                                    *)
(***************************************************************************)
MaxRows == 3        \* longest hosts.csv explored
MaxRender == 1      \* longest scroll of show_message, in ticks

(***************************************************************************)
(* Colours (src/monit.py:31-34).                                           *)
(***************************************************************************)
RED == <<255, 0, 0>>
GREEN == <<0, 255, 0>>
YELLOW == <<255, 255, 0>>
OFF == <<0, 0, 0>>
NoMessage == [text |-> <<>>, text_colour |-> <<>>]

(***************************************************************************)
(* hosts.csv: csv.reader yields every field as a string.                   *)
(***************************************************************************)
RowPool ==
    { <<"1", "1", "report", "2">>,
      <<"1", "1", "ping", "host", "2">>,
      <<"2", "1", "curl", "url", "1">>,
      <<"2", "2", "color", "Red">>,
      <<"2", "2", "color", "blue">>,
      <<"1", "2", "color", "Yellow", "1", "2">>,
      <<"9", "2", "color", "Yellow", "1", "2">>,
      <<"1", "1", "foo", "host", "2">> }

\* The files explored: every sequence of at most MaxRows rows of the pool in
\* which the rows that create tasks stand in the order report, ping, curl,
\* blinking colour (static colours and malformed rows stand anywhere).  The
\* order in which tasks are created does not matter to the event loop below.
Rank(row) ==
    CASE row[3] = "report" -> 1
      [] row[3] = "ping" -> 2
      [] row[3] = "curl" -> 3
      [] row[3] = "color" /\ Len(row) > 4 -> 4
      [] OTHER -> 0

Ordered(c) ==
    \A m, n \in DOMAIN c :
        (m < n /\ Rank(c[m]) > 0 /\ Rank(c[n]) > 0) => Rank(c[m]) <= Rank(c[n])

Configs == { c \in UNION { [1..n -> RowPool] : n \in 0..MaxRows } : Ordered(c) }

\* int(s) for the numerals that occur in RowPool
int(s) ==
    CASE s = "0" -> 0
      [] s = "1" -> 1
      [] s = "2" -> 2
      [] s = "9" -> 9

\* str.lower() for the colour names that occur in RowPool
lower(s) ==
    CASE s = "Red" -> "red"
      [] s = "Yellow" -> "yellow"
      [] s = "Green" -> "green"
      [] OTHER -> s

\* Faulty variant of Sleep, used to test the properties: a negative delay is
\* kept as the time to wait.
Sleep_unclamped(delay) == delay

\* asyncio.sleep(delay): a delay <= 0 only yields to the event loop
Sleep(delay) == IF delay <= 0 THEN 0 ELSE delay

(***************************************************************************)
(* Tasks.  One record shape for the three coroutines; the fields a         *)
(* coroutine does not have stay at their defaults.                         *)
(*   state : "pending" (created, no step run), "running", "failed",        *)
(*           "cancelled"                                                   *)
(*   pc    : where the coroutine is suspended                              *)
(*   timer : ticks left of the sleep (or of the scroll) it is in           *)
(*   probed, last : history of check_host: a probe has returned; the       *)
(*           outcome of the latest probe ("none", "up", "down", "error")   *)
(*   since, d : history of display_report: ticks since the current         *)
(*           iteration began, and the length of its scroll                 *)
(*           (for blink_color, since is the ticks since the colour was     *)
(*           last written)                                                 *)
(*   clock : the same history is kept for this check_host task: since is   *)
(*           the ticks since its cycle began, d whether its probe was in   *)
(*           flight during a tick (0 = an instantaneous probe).  main()    *)
(*           creates its tasks without it; see SpecDirect.                 *)
(***************************************************************************)
Task(kind, x, y, method, interval, color, on, off) ==
    [ kind |-> kind, x |-> x, y |-> y, method |-> method, interval |-> interval,
      color |-> color, on_duration |-> on, off_duration |-> off,
      state |-> "pending", pc |-> "start", timer |-> 0, err |-> "none",
      probed |-> FALSE, last |-> "none",
      since |-> 0, d |-> 0, clock |-> FALSE ]

Ids == 1..Len(loops)
Checks == { i \in Ids : loops[i].kind = "check" }
Blinks == { i \in Ids : loops[i].kind = "blink" }
Reports == { i \in Ids : loops[i].kind = "report" }
Alive(i) == loops[i].state \in {"pending", "running"}

\* asyncio.run cancels every task that is still alive when main() ends
CancelAll(ls) ==
    [ i \in 1..Len(ls) |->
        IF ls[i].state \in {"pending", "running"}
        THEN [ls[i] EXCEPT !.state = "cancelled"]
        ELSE ls[i] ]

\* sense.set_pixel(x - 1, y - 1, colour): the matrix is 8 x 8 and the call
\* raises ValueError for a pixel outside it
PixelOk(x, y) == x - 1 \in 0..7 /\ y - 1 \in 0..7

set_pixel(disp, x, y, colour) ==
    [ p \in DOMAIN disp \cup {<<x - 1, y - 1>>} |->
        IF p = <<x - 1, y - 1>> THEN colour ELSE disp[p] ]

Init ==
    /\ rows \in Configs
    /\ mainPc = "parse"
    /\ mainErr = "none"
    /\ report_task = 0
    /\ tasks = <<>>
    /\ loops = <<>>
    /\ status_dict = <<>>
    /\ display = <<>>
    /\ shown = NoMessage

(***************************************************************************)
(* main(): the loop over the rows (src/monit.py:132-169).  There is no     *)
(* await in it, so no task runs a step before main reaches gather.         *)
(***************************************************************************)
ColorNames == {"red", "green", "yellow"}

ColorOf(color_name) ==
    CASE color_name = "red" -> RED
      [] color_name = "green" -> GREEN
      [] color_name = "yellow" -> YELLOW

\* an exception leaves main(): asyncio.run cancels the tasks and re-raises
MainRaise(e) ==
    /\ mainPc' = "aborted"
    /\ mainErr' = e
    /\ loops' = CancelAll(loops)
    /\ UNCHANGED <<rows, report_task, tasks, status_dict, display, shown>>

main_row ==
    /\ mainPc = "parse"
    /\ rows # <<>>
    /\ LET row == Head(rows)
           x == int(row[1])
           y == int(row[2])
           args == SubSeq(row, 3, Len(row))
           id == Len(loops) + 1
       IN  IF args[1] = "report" THEN
               /\ loops' = Append(loops,
                      Task("report", x, y, "-", int(args[2]), OFF, 0, 0))
               /\ report_task' = id
               /\ rows' = Tail(rows)
               /\ UNCHANGED <<mainPc, mainErr, tasks, status_dict, display, shown>>
           ELSE IF args[1] \in {"ping", "curl"} THEN
               /\ loops' = Append(loops,
                      Task("check", x, y, args[1], int(args[3]), OFF, 0, 0))
               /\ tasks' = Append(tasks, id)
               /\ rows' = Tail(rows)
               /\ UNCHANGED <<mainPc, mainErr, report_task, status_dict, display, shown>>
           ELSE IF args[1] = "color" THEN
               IF lower(args[2]) \notin ColorNames THEN
                   MainRaise("ValueError")
               ELSE IF Len(args) > 2 THEN
                   /\ loops' = Append(loops,
                          Task("blink", x, y, "-", 0, ColorOf(lower(args[2])),
                               int(args[3]), int(args[4])))
                   /\ rows' = Tail(rows)
                   /\ UNCHANGED <<mainPc, mainErr, report_task, tasks, status_dict,
                                  display, shown>>
               ELSE IF PixelOk(x, y) THEN
                   /\ display' = set_pixel(display, x, y, ColorOf(lower(args[2])))
                   /\ rows' = Tail(rows)
                   /\ UNCHANGED <<mainPc, mainErr, report_task, tasks, loops,
                                  status_dict, shown>>
               ELSE
                   MainRaise("ValueError")
           ELSE
               MainRaise("ValueError")

\* await asyncio.gather(report_task, *tasks) (src/monit.py:171-175): with
\* report_task unbound the expression raises UnboundLocalError inside the
\* try, main() logs it and returns
main_gather ==
    /\ mainPc = "parse"
    /\ rows = <<>>
    /\ IF report_task = 0
       THEN /\ mainPc' = "done"
            /\ mainErr' = "UnboundLocalError"
            /\ loops' = CancelAll(loops)
       ELSE /\ mainPc' = "waiting"
            /\ UNCHANGED <<mainErr, loops>>
    /\ UNCHANGED <<rows, report_task, tasks, status_dict, display, shown>>

\* the tasks main() waits on
Gathered == { i \in Ids : i = report_task \/ \E n \in 1..Len(tasks) : tasks[n] = i }

\* the event-loop thread is inside sense.show_message
Rendering == \E i \in Ids : loops[i].state = "running" /\ loops[i].pc = "render"

\* gather re-raises the first exception of an awaited task in main(), which
\* logs it and returns (src/monit.py:172-175)
main_except ==
    /\ mainPc = "waiting"
    /\ ~Rendering
    /\ \E i \in Gathered :
          /\ loops[i].state = "failed"
          /\ mainErr' = loops[i].err
    /\ mainPc' = "done"
    /\ loops' = CancelAll(loops)
    /\ UNCHANGED <<rows, report_task, tasks, status_dict, display, shown>>

(***************************************************************************)
(* The event loop.  A task suspended in a sleep may run its next step once *)
(* the sleep is over and the thread is not held by another task.           *)
(***************************************************************************)
Blocked(i) ==
    \E j \in Ids \ {i} : loops[j].state = "running" /\ loops[j].pc = "render"

Runnable(i) ==
    /\ mainPc = "waiting"
    /\ Alive(i)
    /\ loops[i].timer = 0
    /\ ~Blocked(i)

\* the coroutine of task i raises e: the task ends with that exception
Raise(i, e) == [loops EXCEPT ![i].state = "failed", ![i].err = e]

(***************************************************************************)
(* ping / curl (src/monit.py:37-69).  What the subprocess hands back is    *)
(* the environment's choice: an exit status for ping, the text written by  *)
(* curl -w '%{http_code}'; or starting the subprocess or talking to it     *)
(* raises OSError.                                                         *)
(***************************************************************************)
ProcessError == "OSError"

ProbeOutcomes(method) ==
    IF method = "ping" THEN {0, 1} ELSE {"200", "404", "000"}

ping(returncode) == returncode = 0

curl(status_code) == status_code = "200"

(***************************************************************************)
(* check_host (src/monit.py:72-94)                                         *)
(***************************************************************************)
\* Faulty variant of check_host_pending, used to test the properties: the
\* pixel is not set to YELLOW before the probe.
check_host_pending_no_yellow(i) ==
    /\ i \in Checks
    /\ Runnable(i)
    /\ loops[i].pc \in {"start", "sleep"}
    /\ loops' = [loops EXCEPT ![i].state = "running", ![i].pc = "yellow",
                              ![i].timer = Sleep(1),
                              ![i].since = 0, ![i].d = 0]
    /\ UNCHANGED <<rows, mainPc, mainErr, report_task, tasks, status_dict, display, shown>>

\* lines 75-77: top of the while loop, up to the await of sleep(1)
check_host_pending(i) ==
    /\ i \in Checks
    /\ Runnable(i)
    /\ loops[i].pc \in {"start", "sleep"}
    /\ IF PixelOk(loops[i].x, loops[i].y)
       THEN /\ display' = set_pixel(display, loops[i].x, loops[i].y, YELLOW)
            /\ loops' = [loops EXCEPT ![i].state = "running", ![i].pc = "yellow",
                                      ![i].timer = Sleep(1),
                                      ![i].since = 0, ![i].d = 0]
       ELSE /\ loops' = Raise(i, "ValueError")
            /\ UNCHANGED display
    /\ UNCHANGED <<rows, mainPc, mainErr, report_task, tasks, status_dict, shown>>

\* lines 79-84: the method is examined and the probe's subprocess is awaited
check_host_probe(i) ==
    /\ i \in Checks
    /\ Runnable(i)
    /\ loops[i].pc = "yellow"
    /\ IF loops[i].method \in {"ping", "curl"}
       THEN loops' = [loops EXCEPT ![i].pc = "probe"]
       ELSE loops' = Raise(i, "ValueError")
    /\ UNCHANGED <<rows, mainPc, mainErr, report_task, tasks, status_dict, display, shown>>

\* Faulty variants of the dictionary write, used to test the properties: one
\* that forgets the other keys, one that stores the result under every key.
dict_set_forgets(dict, key, value) == [ k \in {key} |-> value ]

dict_set_negates(dict, key, value) ==
    [ k \in DOMAIN dict \cup {key} |-> IF k = key THEN ~value ELSE dict[k] ]

dict_set_setdefault(dict, key, value) ==
    [ k \in DOMAIN dict \cup {key} |-> IF k \in DOMAIN dict THEN dict[k] ELSE value ]

dict_set_clobbers(dict, key, value) == [ k \in DOMAIN dict \cup {key} |-> value ]

\* status_dict[(x, y)] = result
dict_set(dict, key, value) ==
    [ k \in DOMAIN dict \cup {key} |-> IF k = key THEN value ELSE dict[k] ]

\* lines 80/82 return, then lines 86-94 up to the await of sleep(interval - 1)
check_host_settle(i) ==
    /\ i \in Checks
    /\ Runnable(i)
    /\ loops[i].pc = "probe"
    /\ \/ \E out \in ProbeOutcomes(loops[i].method) :
            LET result == IF loops[i].method = "ping" THEN ping(out) ELSE curl(out)
                l == [loops[i] EXCEPT !.probed = TRUE,
                                      !.last = IF result THEN "up" ELSE "down"]
            IN  /\ status_dict' = dict_set(status_dict, <<loops[i].x, loops[i].y>>, result)
                /\ IF PixelOk(loops[i].x, loops[i].y)
                   THEN /\ display' = set_pixel(display, loops[i].x, loops[i].y,
                                                IF result THEN GREEN ELSE RED)
                        /\ loops' = [loops EXCEPT ![i] =
                               [l EXCEPT !.pc = "sleep",
                                         !.timer = Sleep(loops[i].interval - 1)]]
                   ELSE /\ loops' = [loops EXCEPT ![i] =
                               [l EXCEPT !.state = "failed", !.err = "ValueError"]]
                        /\ UNCHANGED display
       \/ \* the subprocess could not be run: nothing catches the exception
          /\ loops' = [loops EXCEPT ![i].state = "failed", ![i].err = ProcessError,
                                    ![i].last = "error"]
          /\ UNCHANGED <<status_dict, display>>
    /\ UNCHANGED <<rows, mainPc, mainErr, report_task, tasks, shown>>

(***************************************************************************)
(* blink_color (src/monit.py:97-104)                                       *)
(***************************************************************************)
blink_color_on(i) ==
    /\ i \in Blinks
    /\ Runnable(i)
    /\ loops[i].pc \in {"start", "off"}
    /\ IF PixelOk(loops[i].x, loops[i].y)
       THEN /\ display' = set_pixel(display, loops[i].x, loops[i].y, loops[i].color)
            /\ loops' = [loops EXCEPT ![i].state = "running", ![i].pc = "on",
                                      ![i].timer = Sleep(loops[i].on_duration),
                                      ![i].since = 0]
       ELSE /\ loops' = Raise(i, "ValueError")
            /\ UNCHANGED display
    /\ UNCHANGED <<rows, mainPc, mainErr, report_task, tasks, status_dict, shown>>

blink_color_off(i) ==
    /\ i \in Blinks
    /\ Runnable(i)
    /\ loops[i].pc = "on"
    /\ IF PixelOk(loops[i].x, loops[i].y)
       THEN /\ display' = set_pixel(display, loops[i].x, loops[i].y, OFF)
            /\ loops' = [loops EXCEPT ![i].pc = "off",
                                      ![i].timer = Sleep(loops[i].off_duration)]
       ELSE /\ loops' = Raise(i, "ValueError")
            /\ UNCHANGED display
    /\ UNCHANGED <<rows, mainPc, mainErr, report_task, tasks, status_dict, shown>>

(***************************************************************************)
(* display_report (src/monit.py:107-122)                                   *)
(***************************************************************************)
\* Faulty variant of up_count, used to test the properties: the filter
\* "if status" is forgotten.
up_count_unfiltered(dict) == Cardinality(DOMAIN dict)

up_count(dict) == Cardinality({ k \in DOMAIN dict : dict[k] })

total_count(dict) == Cardinality(DOMAIN dict)

down_count(dict) == total_count(dict) - up_count(dict)

\* f"{up_count}/{total_count} UP {down_count}/{total_count} DOWN"
message(up, total, down) == <<up, "/", total, " UP ", down, "/", total, " DOWN">>

text_colour(up, total) == IF up = total THEN GREEN ELSE RED

\* lines 110-120: the counts are taken and show_message is entered; the scroll
\* holds the thread for d ticks
display_report_show(i) ==
    /\ i \in Reports
    /\ Runnable(i)
    /\ loops[i].pc \in {"start", "sleep"}
    /\ shown' = [ text |-> message(up_count(status_dict), total_count(status_dict),
                                   down_count(status_dict)),
                  text_colour |-> text_colour(up_count(status_dict),
                                              total_count(status_dict)) ]
    /\ \E d \in 0..MaxRender :
          loops' = [loops EXCEPT ![i].state = "running", ![i].pc = "render",
                                 ![i].timer = d,
                                 ![i].since = 0,
                                 ![i].d = d]
    /\ UNCHANGED <<rows, mainPc, mainErr, report_task, tasks, status_dict, display>>

\* show_message returns; line 122: await asyncio.sleep(report_interval)
display_report_sleep(i) ==
    /\ i \in Reports
    /\ Runnable(i)
    /\ loops[i].pc = "render"
    /\ loops' = [loops EXCEPT ![i].pc = "sleep",
                              ![i].timer = Sleep(loops[i].interval)]
    /\ shown' = NoMessage
    /\ UNCHANGED <<rows, mainPc, mainErr, report_task, tasks, status_dict, display>>

(***************************************************************************)
(* Time.  A tick passes only when nothing can run: the thread is inside a  *)
(* scroll that is not over, or no task is ready and main() has no          *)
(* exception to handle.  A probe in flight lasts any number of ticks.      *)
(***************************************************************************)
Timed(i) == Alive(i) /\ loops[i].pc \in {"yellow", "sleep", "on", "off", "render"}

Ready(i) == Alive(i) /\ loops[i].pc # "probe" /\ loops[i].timer = 0

Scrolling == \E i \in Ids : loops[i].state = "running" /\ loops[i].pc = "render"
                              /\ loops[i].timer > 0

\* the history counter since stops counting once it is past every value a
\* report's period can be compared with
SinceCap(i) ==
    loops[i].interval + loops[i].on_duration + loops[i].off_duration + MaxRender + 1

Tick ==
    /\ mainPc = "waiting"
    /\ \/ Scrolling
       \/ /\ \A i \in Ids : ~Ready(i)
          /\ \A i \in Gathered : loops[i].state # "failed"
    /\ loops' = [ i \in Ids |->
                    IF ~Alive(i) THEN loops[i]
                    ELSE [loops[i] EXCEPT
                            !.timer = IF Timed(i) /\ @ > 0 THEN @ - 1 ELSE @,
                            !.since = IF (loops[i].kind \in {"report", "blink"}
                                          \/ loops[i].clock)
                                         /\ loops[i].state = "running"
                                         /\ @ < SinceCap(i)
                                      THEN @ + 1 ELSE @,
                            !.d = IF loops[i].clock /\ loops[i].pc = "probe"
                                  THEN 1 ELSE @] ]
    /\ UNCHANGED <<rows, mainPc, mainErr, report_task, tasks, status_dict, display, shown>>

Next ==
    \/ main_row
    \/ main_gather
    \/ main_except
    \/ \E i \in Ids : check_host_pending(i)
    \/ \E i \in Ids : check_host_probe(i)
    \/ \E i \in Ids : check_host_settle(i)
    \/ \E i \in Ids : blink_color_on(i)
    \/ \E i \in Ids : blink_color_off(i)
    \/ \E i \in Ids : display_report_show(i)
    \/ \E i \in Ids : display_report_sleep(i)
    \/ Tick

Spec == Init /\ [][Next]_vars

(***************************************************************************)
(* Vocabulary of the properties.                                           *)
(***************************************************************************)
Key(i) == <<loops[i].x, loops[i].y>>

Pixel(i) == <<loops[i].x - 1, loops[i].y - 1>>

\* the coordinate of task i is used by no other check_host task
OwnKey(i) == \A j \in Checks \ {i} : Key(j) # Key(i)

\* the numbers of the message being scrolled
ShownUp == shown.text[1]
ShownTotal == shown.text[3]
ShownDown == shown.text[5]

\* C1: every rendered report is GREEN if and only if up = total and total > 0,
\* and RED otherwise; a report of the empty dictionary is RED.
C1_ColourIffAllUp ==
    shown # NoMessage =>
        /\ shown.text_colour \in {GREEN, RED}
        /\ shown.text_colour = GREEN <=> (ShownUp = ShownTotal /\ ShownTotal > 0)

\* C2: the numbers of the message a report scrolls are those of one view of
\* status_dict: total is the number of its keys, up the number of keys whose
\* value is true, down = total - up, and 0 <= up <= total.  (No task runs
\* while the message scrolls, so the dictionary of the state is that view.)
C2_ReportCounts ==
    shown # NoMessage =>
        /\ shown.text = <<ShownUp, "/", ShownTotal, " UP ",
                          ShownDown, "/", ShownTotal, " DOWN">>
        /\ ShownTotal = Cardinality(DOMAIN status_dict)
        /\ ShownUp = Cardinality({ k \in DOMAIN status_dict : status_dict[k] = TRUE })
        /\ ShownDown = ShownTotal - ShownUp
        /\ 0 <= ShownUp /\ ShownUp <= ShownTotal

C2_Witness ==
    /\ shown # NoMessage
    /\ shown.text = <<1, "/", 2, " UP ", 1, "/", 2, " DOWN">>
    /\ \E i \in Reports : loops[i].pc = "render"

\* C3: a probe that fails at the process level is absorbed by check_host: the
\* task keeps running, Down is written under its coordinate, its pixel is RED,
\* and the error reaches neither the task's result nor main().
C3_ProbeErrorAbsorbed ==
    \A i \in Checks :
        loops[i].last = "error" =>
            /\ loops[i].state # "failed"
            /\ mainErr # ProcessError
            /\ Key(i) \in DOMAIN status_dict
            /\ status_dict[Key(i)] = FALSE
            /\ Pixel(i) \in DOMAIN display
            /\ display[Pixel(i)] \in {RED, YELLOW}

\* C4: fail fast: a task that has ended with an exception is one main() is
\* waiting on (so that gather raises in main) or main() has already returned;
\* and when main() has returned the error is recorded and no task is alive.
C4_FailFast ==
    /\ \A i \in Ids :
          loops[i].state = "failed" => (mainPc = "done" \/ i \in Gathered)
    /\ mainPc = "done" => (mainErr # "none" /\ \A i \in Ids : ~Alive(i))

\* C5: when startup aborts on a malformed row (unknown command or colour name)
\* no pixel has been written and no task has run a step.
Malformed(row) ==
    \/ row[3] \notin {"report", "ping", "curl", "color"}
    \/ row[3] = "color" /\ lower(row[4]) \notin ColorNames

C5_AbortBeforeDisplay ==
    (mainPc = "aborted" /\ rows # <<>> /\ Malformed(Head(rows))) =>
        /\ mainErr = "ValueError"
        /\ display = <<>>
        /\ \A i \in Ids : loops[i].pc = "start" /\ loops[i].state = "cancelled"

\* C6: for a check_host task whose coordinate no other check_host task uses,
\* the key is in status_dict exactly when a probe of the task has returned; a
\* report's total counts exactly the keys of tasks whose probe has returned;
\* and no step removes a key.
C6_KeyIffProbed ==
    /\ [](/\ \A i \in Checks :
                OwnKey(i) => (Key(i) \in DOMAIN status_dict <=> loops[i].probed)
          /\ shown # NoMessage =>
                ShownTotal = Cardinality({ Key(i) : i \in { j \in Checks : loops[j].probed } }))
    /\ [][DOMAIN status_dict \subseteq DOMAIN status_dict']_vars

C6_Witness ==
    /\ shown # NoMessage
    /\ ShownTotal = 1
    /\ \E i, j \in Checks :
          /\ i # j /\ OwnKey(i) /\ OwnKey(j)
          /\ loops[i].probed /\ loops[i].last = "down"
          /\ ~loops[j].probed /\ loops[j].pc = "probe"
          /\ Key(j) \notin DOMAIN status_dict

\* the sleep task i is suspended in is over
SleepOver(i) ==
    /\ mainPc = "waiting"
    /\ loops[i].state = "running"
    /\ loops[i].pc \in {"yellow", "sleep", "on", "off"}
    /\ loops[i].timer = 0

\* C7: no loop waits on another loop: a check_host or blink_color task whose
\* own sleep is over can take its next step, also while a report's message is
\* still scrolling.
C7_NoLoopWaitsOnAnother ==
    \A i \in Checks \cup Blinks :
        (SleepOver(i) /\ Scrolling) =>
            ENABLED (\/ check_host_pending(i) \/ check_host_probe(i)
                     \/ blink_color_on(i) \/ blink_color_off(i))

\* C8: every value a report can read under a key is a complete result written
\* by a check_host task of that key: a boolean, and for a task that is the
\* key's only writer the result of its latest probe that returned a result;
\* no display_report task ends with an exception and, while main() waits,
\* some step is always possible.
C8_ReadsCompleteWrites ==
    /\ \A k \in DOMAIN status_dict :
          /\ status_dict[k] \in BOOLEAN
          /\ \E i \in Checks : Key(i) = k /\ loops[i].probed
    /\ \A i \in Checks :
          (OwnKey(i) /\ loops[i].last \in {"up", "down"}) =>
              /\ Key(i) \in DOMAIN status_dict
              /\ status_dict[Key(i)] = (loops[i].last = "up")
    /\ \A i \in Reports : loops[i].state # "failed"
    /\ mainPc = "waiting" => ENABLED Next

C8_Witness ==
    /\ \E i \in Reports : loops[i].pc = "render"
    /\ shown # NoMessage
    /\ \E i, j \in Checks :
          /\ OwnKey(i) /\ OwnKey(j)
          /\ loops[i].last = "up" /\ status_dict[Key(i)] = TRUE
          /\ loops[j].last = "down" /\ status_dict[Key(j)] = FALSE
          /\ loops[j].pc = "probe"

\* C9: the period of a report is measured from start to start: when the sleep
\* of an iteration whose scroll took d <= interval ticks is over, interval
\* ticks have passed since the iteration began.
C9_PeriodStartToStart ==
    \A i \in Reports :
        (SleepOver(i) /\ loops[i].d <= loops[i].interval) =>
            loops[i].since = loops[i].interval

\* C10: once main() waits, exactly one display_report task runs and main()
\* waits on every task it has created.
C10_OneReportAllAwaited ==
    mainPc = "waiting" =>
        /\ Cardinality(Reports) = 1
        /\ Gathered = Ids


\* the pixel of task i is written by no other check_host or blink_color task
OwnPixel(i) == \A j \in (Checks \cup Blinks) \ {i} : Pixel(j) # Pixel(i)

\* C11: in every cycle of check_host the pixel is YELLOW from the top of the
\* cycle until the probe has returned, and GREEN is written only after a
\* probe of the cycle returned Up: for a task with a pixel of its own, the
\* pixel is YELLOW while the task waits before the probe or the probe is in
\* flight, and when the pixel is GREEN the task's latest probe returned Up
\* and the task is in the sleep that ends the cycle.
C11_PendingBeforeProbe ==
    \A i \in Checks :
        (OwnPixel(i) /\ loops[i].state # "pending") =>
            /\ loops[i].pc \in {"yellow", "probe"} =>
                  (Pixel(i) \in DOMAIN display /\ display[Pixel(i)] = YELLOW)
            /\ (Pixel(i) \in DOMAIN display /\ display[Pixel(i)] = GREEN) =>
                  (loops[i].probed /\ loops[i].last = "up" /\ loops[i].pc = "sleep")

\* a second cycle is under way: the probe is in flight after an earlier Up
C11_Witness ==
    \E i \in Checks :
        /\ OwnPixel(i)
        /\ loops[i].state = "running"
        /\ loops[i].pc = "probe"
        /\ loops[i].last = "up"
        /\ display[Pixel(i)] = YELLOW


(***************************************************************************)
(* check_host called directly.  main() hands check_host only the methods   *)
(* "ping" and "curl" and the intervals of its file; SpecDirect creates one *)
(* check_host task with any method and any interval of 0..MaxInterval,     *)
(* as a caller of the coroutine can, and waits on it with gather.  The     *)
(* task keeps the cycle clock.                                             *)
(***************************************************************************)
MaxInterval == 2

DirectMethods == {"ping", "curl", "foo"}

InitDirect ==
    /\ rows = <<>>
    /\ mainPc = "waiting"
    /\ mainErr = "none"
    /\ report_task = 0
    /\ tasks = <<1>>
    /\ \E method \in DirectMethods, interval \in 0..MaxInterval :
          loops = << [Task("check", 1, 1, method, interval, OFF, 0, 0)
                        EXCEPT !.clock = TRUE] >>
    /\ status_dict = <<>>
    /\ display = <<>>
    /\ shown = NoMessage

NextDirect ==
    \/ \E i \in Ids : check_host_pending(i)
    \/ \E i \in Ids : check_host_probe(i)
    \/ \E i \in Ids : check_host_settle(i)
    \/ main_except
    \/ Tick

SpecDirect == InitDirect /\ [][NextDirect]_vars

Max(a, b) == IF a >= b THEN a ELSE b

C14_WriteOwnership ==
    [][ status_dict' # status_dict =>
          \E i \in Checks :
             /\ loops[i].pc = "probe"
             /\ loops'[i] # loops[i]
             /\ \A j \in Ids \ {i} : loops'[j] = loops[j]
             /\ DOMAIN status_dict' = DOMAIN status_dict \cup {Key(i)}
             /\ \A k \in DOMAIN status_dict \ {Key(i)} :
                   status_dict'[k] = status_dict[k] ]_vars

\* a check_host task has written its entry while a blink_color task and a
\* display_report task have both run through a cycle
C14_Witness ==
    /\ \E i \in Checks : loops[i].probed /\ DOMAIN status_dict = {Key(i)}
    /\ \E b \in Blinks : loops[b].state = "running" /\ loops[b].pc = "off"
    /\ \E r \in Reports : loops[r].state = "running" /\ loops[r].pc = "sleep"


\* C15: a blink_color task with a pixel on the matrix writes its colour and
\* OFF in strict alternation, beginning with the colour, for ever: while it
\* waits after the colour its pixel shows the colour, while it waits after
\* OFF its pixel is OFF, it never ends once started, and when the wait after
\* OFF is over exactly on_duration + off_duration ticks have passed since
\* the colour was written, whatever the other tasks do.
C15_BlinkPeriod ==
    \A i \in Blinks :
        (PixelOk(loops[i].x, loops[i].y) /\ loops[i].pc # "start") =>
            /\ loops[i].state = "running"
            /\ loops[i].pc \in {"on", "off"}
            /\ OwnPixel(i) =>
                  display[Pixel(i)] = IF loops[i].pc = "on" THEN loops[i].color ELSE OFF
            /\ (SleepOver(i) /\ loops[i].pc = "off") =>
                  loops[i].since = loops[i].on_duration + loops[i].off_duration


(***************************************************************************)
(* Fair scheduling.  The event loop runs ready callbacks first in, first   *)
(* out, so a task that is ready again and again is run (strong fairness    *)
(* of every task's steps, which include the return of its probe); main()   *)
(* is a task of the same loop, and time passes when nothing can run.       *)
(***************************************************************************)
TaskStep(i) ==
    \/ check_host_pending(i) \/ check_host_probe(i) \/ check_host_settle(i)
    \/ blink_color_on(i) \/ blink_color_off(i)
    \/ display_report_show(i) \/ display_report_sleep(i)

Fairness ==
    /\ WF_vars(main_row \/ main_gather \/ main_except)
    /\ WF_vars(Tick)
    /\ \A i \in 1..MaxRows : SF_vars(TaskStep(i))

SpecFair == Spec /\ Fairness

\* main() waits for ever and no task ends with an exception
RunsForEver == mainPc = "waiting" /\ \A i \in Ids : loops[i].state # "failed"

\* C16: under fair scheduling, in a run where main() waits for ever and no
\* task raises, every check_host task is again and again at the top of its
\* cycle (pixel YELLOW, before the probe) and again and again in the sleep
\* that follows its write to status_dict; its coordinate is eventually in
\* the dictionary for good; reports are shown again and again and from some
\* point on every report's total is the number of coordinates of the
\* check_host tasks.
C16_ChecksLive ==
    <>[]RunsForEver =>
        /\ \A i \in 1..MaxRows :
              /\ []<>(i \in Checks => loops[i].pc = "yellow")
              /\ []<>(i \in Checks => loops[i].pc = "sleep")
              /\ <>[](i \in Checks => Key(i) \in DOMAIN status_dict)
        /\ []<>(shown # NoMessage)
        /\ <>[](shown # NoMessage =>
                   ShownTotal = Cardinality({ Key(j) : j \in Checks }))

\* every check_host task has written its entry and the report counts them all
C16_Witness ==
    /\ RunsForEver
    /\ Cardinality(Checks) = 2
    /\ \A i \in Checks : loops[i].probed /\ loops[i].pc = "yellow"
    /\ shown # NoMessage
    /\ ShownTotal = 2


\* C17: line 86 and lines 88-91 run with no await between them, so in every
\* state the pixel of a check_host task that shares its coordinate with no
\* other task is YELLOW, or its coordinate is a key of status_dict and the
\* pixel is GREEN when the entry is True and RED when it is False; the entry
\* is the result of the task's latest probe.
C17_BoardDisplayAgree ==
    \A i \in Checks : (OwnPixel(i) /\ Pixel(i) \in DOMAIN display) =>
        \/ display[Pixel(i)] = YELLOW
        \/ /\ Key(i) \in DOMAIN status_dict
           /\ display[Pixel(i)] = (IF status_dict[Key(i)] THEN GREEN ELSE RED)
           /\ loops[i].probed
           /\ status_dict[Key(i)] = (loops[i].last = "up")

C17_Witness ==
    \E i \in Checks :
        /\ OwnPixel(i)
        /\ loops[i].pc = "sleep"
        /\ Key(i) \in DOMAIN status_dict
        /\ ~status_dict[Key(i)]
        /\ display[Pixel(i)] = RED
        /\ \E j \in Reports : loops[j].state = "running" /\ loops[j].pc = "sleep"


\* two check_host tasks were given the same coordinate
SharedKey == \E i \in Checks : ~OwnKey(i)

\* C18: in every state status_dict has at most as many keys as there are
\* check_host tasks, and a report's total is at most the number of keys; no
\* step removes a key, and a task that comes out of its probe leaves its own
\* result under its coordinate.  When two check_host tasks share a coordinate
\* the number of keys and every report's total are strictly below the number
\* of check_host tasks, and the shared coordinate makes no task fail: a
\* check_host task ends only with the exception of its subprocess (C3).
C18_KeysBoundedMonotone ==
    /\ [](/\ Cardinality(DOMAIN status_dict) <= Cardinality(Checks)
          /\ shown # NoMessage => ShownTotal <= Cardinality(DOMAIN status_dict)
          /\ SharedKey =>
               /\ Cardinality(DOMAIN status_dict) < Cardinality(Checks)
               /\ \A i \in Checks : loops[i].state = "failed" =>
                      loops[i].err = ProcessError /\ loops[i].last = "error")
    /\ [][ /\ DOMAIN status_dict \subseteq DOMAIN status_dict'
           /\ \A i \in Checks :
                (loops[i].pc = "probe" /\ loops'[i].pc = "sleep") =>
                    /\ Key(i) \in DOMAIN status_dict'
                    /\ status_dict'[Key(i)] = (loops'[i].last = "up") ]_vars

C18_Witness ==
    /\ shown # NoMessage
    /\ ShownTotal = 1
    /\ \E i, j \in Checks :
          /\ i # j
          /\ Key(i) = Key(j)
          /\ loops[i].probed /\ loops[i].last = "up"
          /\ loops[j].probed /\ loops[j].last = "down"
          /\ loops[j].pc = "sleep"
          /\ ~status_dict[Key(j)]

====
